---------------------------- MODULE Spec2Model ----------------------------
(***************************************************************************)
(* Ledger core of payment_accounts: Account.deposit / Account.withdraw     *)
(* (row lock taken by select_for_update inside transaction.atomic),        *)
(* TransferHistory.clean / save, and the Transfer Service that composes    *)
(* them, and the Purchase Transaction Service over Transaction and         *)
(* TransactionHistory.  Amounts are scale-2 decimals, modelled as integers *)
(* (the callers pass whole amounts).                                       *)
(*                                                                         *)
(* The store is READ COMMITTED with row-level exclusive locks: `balance`   *)
(* is the committed Account table, `pending[p]` the rows transaction p has *)
(* written and not yet committed, `lock[a]` the holder of row a's lock.    *)
(***************************************************************************)
EXTENDS Integers, Sequences, FiniteSets, Bags, TLC

\* ---------------------------------------------------------------- bounds
NumAccounts == 2
NumCallers == 2
MaxAmount == 1
InitBalance == 1
MaxCalls == 2
MaxTransactions == 1

\* Transaction.MAX_ITEM_PRICE
MAX_ITEM_PRICE == 10000

Accounts == 1..NumAccounts
\* primary keys a caller may pass: the existing rows and one absent key
Keys == 1..(NumAccounts + 1)
Callers == 1..NumCallers
Amounts == (-1)..MaxAmount
\* item prices a caller may pass: below the floor, the floor, an ordinary price,
\* the ceiling and one above it
ItemPrices == {-1, 0, MaxAmount, MAX_ITEM_PRICE, MAX_ITEM_PRICE + 1}

VARIABLES
    balance,           \* Account.balance of every committed row
    lock,              \* per account: the callers holding its row lock (empty when free)
    pending,           \* per caller: uncommitted row writes of its atomic unit
    pc,                \* per caller: position inside the running call
    op,                \* per caller: the call (kind, pk, to, amount)
    account,           \* per caller: the in-memory `account` object's balance
    result,            \* per caller: outcome of its last call and the value returned
    balance_changes,   \* BalanceChange table: the bag of its rows (insert-only)
    transfer_history,  \* TransferHistory table: the bag of its rows (insert-only)
    expected,          \* history: initial balance + successful deposits - successful withdraws
    ncalls,            \* number of calls issued so far
    transactions,      \* Transaction table: the rows in primary-key order
    transaction_history \* TransactionHistory table: the bag of its rows (insert-only)

vars == <<balance, lock, pending, pc, op, account, result,
          balance_changes, transfer_history, expected, ncalls,
          transactions, transaction_history>>

\* the tables of the purchase service
purchase_vars == <<transactions, transaction_history>>

\* ------------------------------------------------------------ helpers
NoOp == [kind |-> "none", pk |-> 0, to |-> 0, amount |-> 0]
NoResult == [status |-> "none", returned |-> <<>>]
Failure(s) == [status |-> s, returned |-> <<>>]
Success(r) == [status |-> "ok", returned |-> r]
NoWrites == [a \in {} |-> 0]

\* one more row in a table
Insert(table, row) == table (+) SetToBag({row})

\* the row as transaction p sees it: its own write, else the committed row
Read(p, a) == IF a \in DOMAIN pending[p] THEN pending[p][a] ELSE balance[a]

Write(w, a, v) == [x \in (DOMAIN w) \cup {a} |-> IF x = a THEN v ELSE w[x]]

\* committing p's atomic unit makes its writes the committed rows
Committed(p) ==
    [a \in Accounts |-> IF a \in DOMAIN pending[p] THEN pending[p][a] ELSE balance[a]]

\* commit or rollback releases every row lock the unit holds
Released_none(p) == lock
Released(p) == [a \in Accounts |-> lock[a] \ {p}]

\* the decorator's test: the call proceeds unless amount < 0
is_amount_positive_strict(amount) == ~(amount <= 0)
is_amount_positive(amount) == ~(amount < 0)

\* select_for_update: blocks while another unit holds the row lock
select_nolock(p, a) == TRUE
select_for_update(p, a) == lock[a] \subseteq {p}

\* account.balance += amount
deposit_noop(b, amount) == b
deposit(b, amount) == b + amount

\* account.balance -= amount
withdraw(b, amount) == b - amount

\* TransferHistory.clean: passes unless account_from == account_to
clean_any(from, to) == TRUE
clean(from, to) == ~(from = to)

\* TransferHistory.full_clean as run by save(): field validators, then clean()
full_clean(from, to, amount) ==
    /\ from \in Accounts
    /\ to \in Accounts
    /\ amount >= 0
    /\ clean(from, to)

\* what a failed TransferHistory.save() raises
save_error(from, to, amount) ==
    IF clean(from, to) THEN "ValidationError" ELSE "DuplicateAccountError"

\* Transfer Service lock order: ascending account key
FirstLock(from, to) == IF from < to THEN from ELSE to
SecondLock(from, to) == IF from < to THEN to ELSE from

\* a call returns (or raises) to its caller; its locals go out of scope
Return(p, r) ==
    /\ result' = [result EXCEPT ![p] = r]
    /\ pc' = [pc EXCEPT ![p] = "idle"]
    /\ account' = [account EXCEPT ![p] = 0]
    /\ op' = [op EXCEPT ![p] = NoOp]

\* leaving the atomic block by an exception: writes discarded, locks released
Rollback(p) ==
    /\ pending' = [pending EXCEPT ![p] = NoWrites]
    /\ lock' = Released(p)

\* a caller's call enters the method body
Enter(p, call, at) ==
    /\ ncalls' = ncalls + 1
    /\ op' = [op EXCEPT ![p] = call]
    /\ pc' = [pc EXCEPT ![p] = at]
    /\ result' = [result EXCEPT ![p] = NoResult]
    /\ UNCHANGED <<balance, lock, pending, account, balance_changes,
                   transfer_history, expected>>

\* a caller's call is refused on entry, before any atomic block is opened
Reject(p, status) ==
    /\ ncalls' = ncalls + 1
    /\ result' = [result EXCEPT ![p] = Failure(status)]
    /\ UNCHANGED <<balance, lock, pending, pc, op, account, balance_changes,
                   transfer_history, expected>>

\* ----------------------------------------------------------------- Init
Init ==
    /\ balance = [a \in Accounts |-> InitBalance]
    /\ expected = balance
    /\ lock = [a \in Accounts |-> {}]
    /\ pending = [p \in Callers |-> NoWrites]
    /\ pc = [p \in Callers |-> "idle"]
    /\ op = [p \in Callers |-> NoOp]
    /\ account = [p \in Callers |-> 0]
    /\ result = [p \in Callers |-> NoResult]
    /\ balance_changes = EmptyBag
    /\ transfer_history = EmptyBag
    /\ ncalls = 0
    /\ transactions = <<>>
    /\ transaction_history = EmptyBag

\* ------------------------------------------------- Account.deposit/withdraw
\* Account.deposit(pk=pk, amount=amount) / Account.withdraw(pk=pk, amount=amount):
\* the is_amount_positive wrapper raises ValueError before the method body runs
AccountCall(p, kind, pk, amount) ==
    /\ pc[p] = "idle"
    /\ ncalls < MaxCalls
    /\ IF is_amount_positive(amount)
         THEN Enter(p, [kind |-> kind, pk |-> pk, to |-> pk, amount |-> amount], "select")
         ELSE Reject(p, "InvalidAmount")

DepositCall(p, pk, amount) == AccountCall(p, "deposit", pk, amount)

WithdrawCall(p, pk, amount) == AccountCall(p, "withdraw", pk, amount)

\* get_object_or_404(cls.objects.select_for_update(), pk=pk): Http404 for an absent
\* row (the atomic block rolls back), else wait for the row lock and read the row.
Select(p) ==
    /\ pc[p] = "select"
    /\ IF op[p].pk \notin Accounts
         THEN /\ Return(p, Failure("NotFound"))
              /\ Rollback(p)
         ELSE /\ select_for_update(p, op[p].pk)
              /\ lock' = [lock EXCEPT ![op[p].pk] = @ \cup {p}]
              /\ account' = [account EXCEPT ![p] = Read(p, op[p].pk)]
              /\ pc' = [pc EXCEPT ![p] = "save"]
              /\ UNCHANGED <<pending, result, op>>
    /\ UNCHANGED <<balance, balance_changes, transfer_history, expected, ncalls>>

\* account.balance +=/-= amount; account.save()
Save(p) ==
    /\ pc[p] = "save"
    /\ LET new == IF op[p].kind = "deposit"
                    THEN deposit(account[p], op[p].amount)
                    ELSE withdraw(account[p], op[p].amount)
       IN /\ account' = [account EXCEPT ![p] = new]
          /\ pending' = [pending EXCEPT ![p] = Write(pending[p], op[p].pk, new)]
    /\ pc' = [pc EXCEPT ![p] = "commit"]
    /\ UNCHANGED <<balance, lock, op, result, balance_changes, transfer_history,
                   expected, ncalls>>

\* leaving `with transaction.atomic()`: commit, release the lock, return account
Commit(p) ==
    /\ pc[p] = "commit"
    /\ balance' = Committed(p)
    /\ lock' = Released(p)
    /\ pending' = [pending EXCEPT ![p] = NoWrites]
    /\ expected' = [expected EXCEPT ![op[p].pk] =
                       IF op[p].kind = "deposit" THEN @ + op[p].amount
                                                 ELSE @ - op[p].amount]
    /\ Return(p, Success(<<account[p]>>))
    /\ UNCHANGED <<balance_changes, transfer_history, ncalls>>

\* ------------------------------------------------- TransferHistory.save
\* TransferHistory(account_from, account_to, amount).save(): full_clean(), then insert
TransferHistorySave(p, from, to, amount) ==
    /\ pc[p] = "idle"
    /\ ncalls < MaxCalls
    /\ ncalls' = ncalls + 1
    /\ IF full_clean(from, to, amount)
         THEN /\ transfer_history' = Insert(transfer_history,
                    [account_from |-> from, account_to |-> to, amount |-> amount])
              /\ result' = [result EXCEPT ![p] = Success(<<>>)]
         ELSE /\ transfer_history' = transfer_history
              /\ result' = [result EXCEPT ![p] = Failure(save_error(from, to, amount))]
    /\ UNCHANGED <<balance, lock, pending, pc, op, account, balance_changes, expected>>

\* -------------------------------------------------------- Transfer Service
\* transfer(fromKey, toKey, amount): validated before any lock is taken,
\* self-transfer first, then a negative amount
TransferCall(p, from, to, amount) ==
    /\ pc[p] = "idle"
    /\ ncalls < MaxCalls
    /\ IF ~clean(from, to)
         THEN Reject(p, "DuplicateAccountError")
         ELSE IF ~is_amount_positive(amount)
                THEN Reject(p, "InvalidAmount")
                ELSE Enter(p, [kind |-> "transfer", pk |-> from, to |-> to,
                               amount |-> amount], "t_lock1")

\* one lock of the transfer's atomic unit; NotFound rolls the unit back
TransferLock(p, at, a, next) ==
    /\ pc[p] = at
    /\ IF a \notin Accounts
         THEN /\ Return(p, Failure("NotFound"))
              /\ Rollback(p)
         ELSE /\ select_for_update(p, a)
              /\ lock' = [lock EXCEPT ![a] = @ \cup {p}]
              /\ pc' = [pc EXCEPT ![p] = next]
              /\ UNCHANGED <<pending, result, account, op>>
    /\ UNCHANGED <<balance, balance_changes, transfer_history, expected, ncalls>>

TransferLock1(p) == TransferLock(p, "t_lock1", FirstLock(op[p].pk, op[p].to), "t_lock2")

TransferLock2(p) == TransferLock(p, "t_lock2", SecondLock(op[p].pk, op[p].to), "t_commit")

\* the rows of the unit after Account.withdraw(pk=fromKey, amount=amount) and then
\* Account.deposit(pk=toKey, amount=amount), each reading the row under the held lock
Transferred(p) ==
    LET from == op[p].pk
        to == op[p].to
        w == Write(pending[p], from, withdraw(Read(p, from), op[p].amount))
        d == IF to \in DOMAIN w THEN w[to] ELSE balance[to]
    IN Write(w, to, deposit(d, op[p].amount))

\* with both locks held: withdraw, deposit, TransferHistory.save(), commit.
\* A failed save rolls the unit back.
TransferCommit(p) ==
    /\ pc[p] = "t_commit"
    /\ IF full_clean(op[p].pk, op[p].to, op[p].amount)
         THEN /\ balance' = [a \in Accounts |->
                    IF a \in DOMAIN Transferred(p) THEN Transferred(p)[a] ELSE balance[a]]
              /\ transfer_history' = Insert(transfer_history,
                    [account_from |-> op[p].pk, account_to |-> op[p].to,
                     amount |-> op[p].amount])
              /\ expected' = [a \in Accounts |->
                    expected[a] - (IF a = op[p].pk THEN op[p].amount ELSE 0)
                                + (IF a = op[p].to THEN op[p].amount ELSE 0)]
              /\ Return(p, Success(<<>>))
         ELSE /\ UNCHANGED <<balance, transfer_history, expected>>
              /\ Return(p, Failure(save_error(op[p].pk, op[p].to, op[p].amount)))
    /\ Rollback(p)
    /\ UNCHANGED <<balance_changes, ncalls>>

\* ------------------------------------------- Purchase Transaction Service
\* Transaction.item_price validators: MinValueValidator(0) and
\* MaxValueValidator(MAX_ITEM_PRICE)
item_price_no_ceiling(price) == price >= 0
item_price_validators(price) == price >= 0 /\ price <= MAX_ITEM_PRICE

\* Transaction.is_frozen = BooleanField(default=False)
is_frozen_default == FALSE

\* Transaction.is_accepted = BooleanField(default=False)
is_accepted_set == TRUE
is_accepted_default == FALSE

\* TransactionHistory.TransactionType
CREATED == "CT"
COMPLETED == "CD"

\* a new Transaction row (item_uid is opaque to the service and left out)
Transaction(buyer, seller, price) ==
    [account_from |-> buyer, account_to |-> seller, item_price |-> price,
     is_frozen |-> is_frozen_default, is_accepted |-> is_accepted_default]

\* a TransactionHistory row
TransactionHistory(tk, type) == [transaction_id |-> tk, operation_type |-> type]

\* the keys a caller may pass for a transaction: every row's and one absent key
TransactionKeys == 1..(MaxTransactions + 1)

\* create refuses a purchase whose buyer is its seller
same_account_allowed(buyer, seller) == TRUE
distinct_accounts(buyer, seller) == ~(buyer = seller)

\* freeze proceeds only on a transaction that is not frozen yet
may_freeze(tx) == ~tx.is_frozen

\* accept proceeds only on a frozen transaction that is not accepted yet
may_accept_unfrozen(tx) == ~tx.is_accepted
may_accept(tx) == tx.is_frozen /\ ~tx.is_accepted

\* a purchase call is refused on entry; the purchase tables bound the states of
\* the service, so its calls are not counted
Refuse(p, status) ==
    /\ result' = [result EXCEPT ![p] = Failure(status)]
    /\ UNCHANGED <<balance, lock, pending, pc, op, account, balance_changes,
                   transfer_history, expected, ncalls>>

\* a purchase call enters the body of freeze or accept
Begin(p, call, at) ==
    /\ op' = [op EXCEPT ![p] = call]
    /\ pc' = [pc EXCEPT ![p] = at]
    /\ result' = [result EXCEPT ![p] = NoResult]
    /\ UNCHANGED <<balance, lock, pending, account, balance_changes,
                   transfer_history, expected, ncalls>>

\* create(buyerKey, sellerKey, itemUid, itemPrice): the price, then the accounts,
\* are validated; the row and its CREATED history record are written in one unit
CreateCall(p, buyer, seller, price) ==
    /\ pc[p] = "idle"
    /\ Len(transactions) < MaxTransactions
    /\ IF ~item_price_validators(price)
         THEN Refuse(p, "InvalidAmount") /\ UNCHANGED purchase_vars
         ELSE IF ~distinct_accounts(buyer, seller)
                THEN Refuse(p, "DuplicateAccountError") /\ UNCHANGED purchase_vars
                ELSE /\ transactions' = Append(transactions, Transaction(buyer, seller, price))
                     /\ transaction_history' = Insert(transaction_history,
                            TransactionHistory(Len(transactions) + 1, CREATED))
                     /\ result' = [result EXCEPT ![p] = Success(<<Len(transactions) + 1>>)]
                     /\ UNCHANGED <<balance, lock, pending, pc, op, account,
                                    balance_changes, transfer_history, expected, ncalls>>

\* freeze(transactionKey) / accept(transactionKey) enter; an absent key is NotFound
PurchaseCall(p, kind, tk, at) ==
    /\ pc[p] = "idle"
    /\ IF tk \notin DOMAIN transactions
         THEN Refuse(p, "NotFound")
         ELSE Begin(p, [kind |-> kind, pk |-> tk, to |-> 0, amount |-> 0], at)
    /\ UNCHANGED purchase_vars

FreezeCall(p, tk) == PurchaseCall(p, "freeze", tk, "f_lock")

AcceptCall(p, tk) == PurchaseCall(p, "accept", tk, "a_lock")

\* the unit takes the row lock of the account it will change, then reads the
\* transaction; a transaction in the wrong state is InvalidState and rolls back
PurchaseLock(p, at, a, allowed, next) ==
    /\ pc[p] = at
    /\ select_for_update(p, a)
    /\ IF allowed
         THEN /\ lock' = [lock EXCEPT ![a] = @ \cup {p}]
              /\ pc' = [pc EXCEPT ![p] = next]
              /\ UNCHANGED <<pending, result, account, op>>
         ELSE /\ Return(p, Failure("InvalidState"))
              /\ Rollback(p)
    /\ UNCHANGED <<balance, balance_changes, transfer_history, expected, ncalls>>
    /\ UNCHANGED purchase_vars

FreezeLock(p) ==
    PurchaseLock(p, "f_lock", transactions[op[p].pk].account_from,
                 may_freeze(transactions[op[p].pk]), "f_commit")

AcceptLock(p) ==
    PurchaseLock(p, "a_lock", transactions[op[p].pk].account_to,
                 may_accept(transactions[op[p].pk]), "a_commit")

\* with the buyer's lock held: Account.withdraw(pk=buyer, amount=item_price),
\* is_frozen = true, commit
FreezeCommit(p) ==
    LET tk == op[p].pk
        buyer == transactions[tk].account_from
        price == transactions[tk].item_price
    IN /\ pc[p] = "f_commit"
       /\ balance' = [balance EXCEPT ![buyer] = withdraw(Read(p, buyer), price)]
       /\ expected' = [expected EXCEPT ![buyer] = @ - price]
       /\ transactions' = [transactions EXCEPT ![tk].is_frozen = TRUE]
       /\ Return(p, Success(<<>>))
       /\ Rollback(p)
       /\ UNCHANGED <<balance_changes, transfer_history, ncalls, transaction_history>>

\* with the seller's lock held: Account.deposit(pk=seller, amount=item_price),
\* is_accepted = true, the COMPLETED history record, commit
AcceptCommit(p) ==
    LET tk == op[p].pk
        seller == transactions[tk].account_to
        price == transactions[tk].item_price
    IN /\ pc[p] = "a_commit"
       /\ balance' = [balance EXCEPT ![seller] = deposit(Read(p, seller), price)]
       /\ expected' = [expected EXCEPT ![seller] = @ + price]
       /\ transactions' = [transactions EXCEPT ![tk].is_accepted = TRUE]
       /\ transaction_history' = Insert(transaction_history,
              TransactionHistory(tk, COMPLETED))
       /\ Return(p, Success(<<>>))
       /\ Rollback(p)
       /\ UNCHANGED <<balance_changes, transfer_history, ncalls>>

\* ----------------------------------------------------------------- Next
AccountStep(p) ==
    /\ \/ \E pk \in Keys, amount \in Amounts : DepositCall(p, pk, amount)
       \/ \E pk \in Keys, amount \in Amounts : WithdrawCall(p, pk, amount)
       \/ Select(p)
       \/ Save(p)
       \/ Commit(p)
    /\ UNCHANGED purchase_vars

TransferStep(p) ==
    /\ \/ \E from \in Keys, to \in Keys, amount \in Amounts :
             TransferCall(p, from, to, amount)
       \/ TransferLock1(p)
       \/ TransferLock2(p)
       \/ TransferCommit(p)
    /\ UNCHANGED purchase_vars

\* callers of Account.deposit / Account.withdraw only
NextAccount == \E p \in Callers : AccountStep(p)

SpecAccount == Init /\ [][NextAccount]_vars

\* direct use of the TransferHistory model
HistoryStep(p) ==
    /\ \E from \in Accounts, to \in Accounts, amount \in Amounts :
          TransferHistorySave(p, from, to, amount)
    /\ UNCHANGED purchase_vars

\* callers of the Transfer Service
NextTransfer == \E p \in Callers : TransferStep(p)

SpecTransfer == Init /\ [][NextTransfer]_vars

\* callers are independent threads: each one that can take a step eventually does
SpecTransferFair == SpecTransfer /\ \A p \in Callers : WF_vars(TransferStep(p))

\* callers of the Transfer Service and of TransferHistory.save
NextHistory == \E p \in Callers : TransferStep(p) \/ HistoryStep(p)

SpecHistory == Init /\ [][NextHistory]_vars

PurchaseStep(p) ==
    \/ \E buyer \in Accounts, seller \in Accounts, price \in ItemPrices :
          CreateCall(p, buyer, seller, price)
    \/ \E tk \in TransactionKeys : FreezeCall(p, tk)
    \/ \E tk \in TransactionKeys : AcceptCall(p, tk)
    \/ FreezeLock(p)
    \/ FreezeCommit(p)
    \/ AcceptLock(p)
    \/ AcceptCommit(p)

\* callers of the Purchase Transaction Service
NextPurchase == \E p \in Callers : PurchaseStep(p)

SpecPurchase == Init /\ [][NextPurchase]_vars

Next ==
    \E p \in Callers :
        AccountStep(p) \/ TransferStep(p) \/ HistoryStep(p) \/ PurchaseStep(p)

Spec == Init /\ [][Next]_vars

TypeOK ==
    /\ balance \in [Accounts -> Int]
    /\ lock \in [Accounts -> SUBSET Callers]
    /\ ncalls \in Nat
    /\ transactions \in Seq([account_from : Accounts, account_to : Accounts,
                             item_price : ItemPrices, is_frozen : BOOLEAN,
                             is_accepted : BOOLEAN])
    /\ Len(transactions) <= MaxTransactions

\* ------------------------------------------------------------- properties
\* caller p leaves a deposit or withdraw whose row exists in this step
AccountReturns(p, kind) ==
    /\ op[p].kind = kind
    /\ pc[p] \in {"select", "save", "commit"}
    /\ pc'[p] = "idle"
    /\ op[p].pk \in Accounts

\* caller p leaves the body of a transfer between existing rows in this step
TransferReturns(p) ==
    /\ op[p].kind = "transfer"
    /\ pc[p] = "t_commit"
    /\ pc'[p] = "idle"

\* C1: in every committed state every Account has balance >= 0.
C1_BalanceNonNegative == \A a \in Accounts : balance[a] >= 0

\* C2: no lost updates: every committed balance equals the initial balance plus the
\* successful deposits minus the successful withdraws on that account, and a call
\* that is about to write holds the row lock exclusively and computes from the
\* row as it is now, never from a value read before the lock.
C2_NoLostUpdates ==
    /\ \A a \in Accounts : balance[a] = expected[a]
    /\ \A p \in Callers :
          /\ pc[p] = "save" =>
                /\ lock[op[p].pk] = {p}
                /\ account[p] = balance[op[p].pk]
          /\ pc[p] = "commit" =>
                /\ lock[op[p].pk] = {p}
                /\ account[p] = IF op[p].kind = "deposit"
                                  THEN balance[op[p].pk] + op[p].amount
                                  ELSE balance[op[p].pk] - op[p].amount

\* C2 witness: one caller has written the row and not yet committed while another
\* caller's deposit or withdraw of a positive amount waits for the same row.
C2_Witness ==
    \E p \in Callers, q \in Callers :
        /\ p # q
        /\ pc[p] = "commit"
        /\ pc[q] = "select"
        /\ op[p].pk = op[q].pk
        /\ op[p].amount > 0
        /\ op[q].amount > 0

\* C3: a withdraw of more than the account's current balance fails with
\* InsufficientFunds, leaves the balance as it was and creates no BalanceChange.
C3_WithdrawInsufficientFunds ==
    [][\A p \in Callers :
          (AccountReturns(p, "withdraw") /\ op[p].amount > balance[op[p].pk]) =>
              /\ result'[p].status = "InsufficientFunds"
              /\ balance' = balance
              /\ balance_changes' = balance_changes]_vars

\* C4: of concurrent withdraws that jointly exceed the balance only a subset whose
\* total fits succeeds (the funds put in cover the successful withdraws), and no
\* caller is handed an Account with a negative balance.
C4_NoJointOverdraw ==
    /\ \A a \in Accounts : expected[a] >= 0
    /\ \A p \in Callers :
          (result[p].status = "ok" /\ Len(result[p].returned) = 1) =>
              result[p].returned[1] >= 0

\* C5: the step that commits a successful deposit or withdraw inserts exactly one
\* BalanceChange row for that account, with the same amount and the matching
\* operation_type; no balance changes without a BalanceChange row, and no
\* BalanceChange row is written by any other step.
C5_BalanceChangePaired ==
    [][\A p \in Callers :
          /\ (\E kind \in {"deposit", "withdraw"} :
                 AccountReturns(p, kind) /\ result'[p].status = "ok") =>
                balance_changes' = Insert(balance_changes,
                    [account_id |-> op[p].pk, amount |-> op[p].amount,
                     operation_type |-> IF op[p].kind = "deposit" THEN "DT" ELSE "WD"])
          /\ (balance' # balance) => (balance_changes' # balance_changes)
          /\ (balance_changes' # balance_changes) =>
                \E q \in Callers, kind \in {"deposit", "withdraw"} :
                    AccountReturns(q, kind) /\ result'[q].status = "ok"]_vars

\* C6: deposit and withdraw are refused with InvalidAmount exactly when amount < 0
\* (0 is accepted); the refusal takes no lock and changes no balance and no audit
\* row, and an accepted amount reaches the method body as it was passed.
C6_InvalidAmountRejected ==
    [][\A p \in Callers :
          /\ \A kind \in {"deposit", "withdraw"}, pk \in Keys, amount \in Amounts :
                AccountCall(p, kind, pk, amount) =>
                    IF amount < 0
                      THEN /\ result'[p].status = "InvalidAmount"
                           /\ pc'[p] = "idle"
                           /\ UNCHANGED <<balance, lock, pending, balance_changes,
                                          transfer_history, expected>>
                      ELSE /\ result'[p].status # "InvalidAmount"
                           /\ pc'[p] = "select"
                           /\ op'[p].amount = amount
          /\ (op[p].kind \in {"deposit", "withdraw"} /\ pc[p] # "idle") =>
                /\ op[p].amount >= 0
                /\ result'[p].status # "InvalidAmount"]_vars

\* C6 witness: a call has been refused with InvalidAmount and another one, with
\* amount 0, has entered the method body.
C6_Witness ==
    \E p \in Callers, q \in Callers :
        /\ result[p].status = "InvalidAmount"
        /\ pc[p] = "idle"
        /\ pc[q] = "select"
        /\ op[q].amount = 0

\* C7: a transfer of more than the source account holds fails as a whole: both
\* balances stay as they were and no BalanceChange and no TransferHistory row is
\* written.
C7_TransferAtomicOnInsufficientFunds ==
    [][\A p \in Callers :
          (TransferReturns(p) /\ op[p].amount > balance[op[p].pk]) =>
              /\ result'[p].status = "InsufficientFunds"
              /\ balance' = balance
              /\ balance_changes' = balance_changes
              /\ transfer_history' = transfer_history]_vars

\* C8: a transfer with fromKey = toKey is refused with DuplicateAccountError and
\* changes no balance and no TransferHistory row; every TransferHistory row has
\* account_from different from account_to.
C8_NoSelfTransfer ==
    /\ [](\A row \in BagToSet(transfer_history) : row.account_from # row.account_to)
    /\ [][\A p \in Callers, k \in Keys, amount \in Amounts :
             TransferCall(p, k, k, amount) =>
                 /\ result'[p].status = "DuplicateAccountError"
                 /\ pc'[p] = "idle"
                 /\ UNCHANGED <<balance, lock, pending, transfer_history>>]_vars

\* C8 witness: a self-transfer has been refused while a TransferHistory row exists.
C8_Witness ==
    /\ \E p \in Callers : result[p].status = "DuplicateAccountError"
    /\ transfer_history # EmptyBag

\* the row a caller inside a transfer is about to lock
Wanted(p) ==
    IF pc[p] = "t_lock1" THEN {FirstLock(op[p].pk, op[p].to)} \cap Accounts
    ELSE IF pc[p] = "t_lock2" THEN {SecondLock(op[p].pk, op[p].to)} \cap Accounts
    ELSE {}

\* p waits for a row lock that q holds
WaitsFor(p, q) == p # q /\ \E a \in Wanted(p) : q \in lock[a]

\* the callers p waits for, directly or through others
RECURSIVE WaitChain(_, _)
WaitChain(p, n) ==
    IF n = 0 THEN {}
    ELSE LET direct == {q \in Callers : WaitsFor(p, q)}
         IN direct \cup UNION {WaitChain(q, n - 1) : q \in direct}

\* no circular wait among the callers
NoCircularWait == \A p \in Callers : p \notin WaitChain(p, NumCallers)

C10_TransferMovesAmount ==
    [][\A p \in Callers :
          (TransferReturns(p) /\ result'[p].status = "ok") =>
              /\ op[p].pk # op[p].to
              /\ balance'[op[p].pk] = balance[op[p].pk] - op[p].amount
              /\ balance'[op[p].to] = balance[op[p].to] + op[p].amount
              /\ \A a \in Accounts \ {op[p].pk, op[p].to} : balance'[a] = balance[a]
              /\ transfer_history' = Insert(transfer_history,
                    [account_from |-> op[p].pk, account_to |-> op[p].to,
                     amount |-> op[p].amount])]_vars

\* C10 witness: a transfer of a positive amount has succeeded.
C10_Witness ==
    \E p \in Callers, row \in BagToSet(transfer_history) :
        /\ result[p].status = "ok"
        /\ row.amount > 0
        /\ balance[row.account_to] = InitBalance + row.amount

\* ------------------------------------------ purchase service properties
\* the transaction a freeze or accept in flight is about
Tx(p) == transactions[op[p].pk]

\* caller p's freeze or accept reads the transaction under the lock in this step
PurchaseChecks(p, kind, at) ==
    /\ op[p].kind = kind
    /\ pc[p] = at
    /\ pc'[p] # at

\* caller p's freeze or accept commits in this step
PurchaseCommits(p, kind, at) ==
    /\ op[p].kind = kind
    /\ pc[p] = at
    /\ pc'[p] = "idle"

\* the item_price total of the transactions with keys in S
RECURSIVE SumPrices(_)
SumPrices(S) ==
    IF S = {} THEN 0
    ELSE LET tk == CHOOSE x \in S : TRUE
         IN transactions[tk].item_price + SumPrices(S \ {tk})

\* what the frozen transactions have charged account a
Charged(a) ==
    SumPrices({tk \in DOMAIN transactions :
        transactions[tk].is_frozen /\ transactions[tk].account_from = a})

\* what the accepted transactions have credited account a
Credited(a) ==
    SumPrices({tk \in DOMAIN transactions :
        transactions[tk].is_accepted /\ transactions[tk].account_to = a})

\* the number of TransactionHistory records of a type for transaction tk
Records(tk, type) == CopiesIn([transaction_id |-> tk, operation_type |-> type],
                              transaction_history)

\* C11: accept on a transaction that is not yet frozen always fails with
\* InvalidState and leaves the transaction flags, every balance (the seller's
\* included) and the TransactionHistory unchanged; no accept commits on a
\* transaction that is not frozen.
C11_AcceptNotFrozen ==
    [][\A p \in Callers :
        /\ (PurchaseChecks(p, "accept", "a_lock") /\ ~Tx(p).is_frozen) =>
              /\ pc'[p] = "idle"
              /\ result'[p] = Failure("InvalidState")
              /\ transactions' = transactions
              /\ balance' = balance
              /\ transaction_history' = transaction_history
        /\ PurchaseCommits(p, "accept", "a_commit") => Tx(p).is_frozen]_vars

\* an accept has failed with InvalidState on a transaction that is not frozen
C11_Witness ==
    /\ transactions # <<>>
    /\ \A tk \in DOMAIN transactions : ~transactions[tk].is_frozen
    /\ \E p \in Callers : result[p] = Failure("InvalidState")

C14_FreezeInsufficientFunds ==
    [][\A p \in Callers :
        (/\ PurchaseCommits(p, "freeze", "f_commit")
         /\ balance[Tx(p).account_from] < Tx(p).item_price) =>
              /\ result'[p] = Failure("InsufficientFunds")
              /\ ~transactions'[op[p].pk].is_frozen
              /\ balance' = balance]_vars

\* C15: create succeeds only when 0 <= itemPrice <= MAX_ITEM_PRICE; for any other
\* price it fails with InvalidAmount and persists no Transaction row, so every
\* persisted Transaction has 0 <= item_price <= MAX_ITEM_PRICE.
C15_ItemPriceInRange ==
    /\ [](\A tk \in DOMAIN transactions :
            /\ 0 <= transactions[tk].item_price
            /\ transactions[tk].item_price <= MAX_ITEM_PRICE)
    /\ [][\A p \in Callers, buyer \in Accounts, seller \in Accounts, price \in ItemPrices :
            CreateCall(p, buyer, seller, price) =>
                /\ (price < 0 \/ price > MAX_ITEM_PRICE) =>
                      /\ result'[p] = Failure("InvalidAmount")
                      /\ transactions' = transactions
                      /\ transaction_history' = transaction_history
                /\ transactions' # transactions =>
                      /\ 0 <= price
                      /\ price <= MAX_ITEM_PRICE
                      /\ result'[p].status = "ok"]_vars

\* a create was refused with InvalidAmount and a Transaction priced at the
\* ceiling is persisted
C15_Witness ==
    /\ \E p \in Callers : result[p] = Failure("InvalidAmount")
    /\ \E tk \in DOMAIN transactions : transactions[tk].item_price = MAX_ITEM_PRICE

RECURSIVE SumBalances(_)
SumBalances(S) ==
    IF S = {} THEN 0
    ELSE LET a == CHOOSE x \in S : TRUE
         IN balance[a] + SumBalances(S \ {a})

\* the item_price total of the transactions that are frozen but not yet accepted
Held ==
    SumPrices({tk \in DOMAIN transactions :
        transactions[tk].is_frozen /\ ~transactions[tk].is_accepted})

\* C18: operations on one Account are serialized by its row lock: at most one
\* atomic unit holds the lock of an account, every unit between its select and
\* its commit is that holder, and a unit waiting at its select can proceed
\* exactly when no other unit holds the lock of its own account, whatever locks
\* on other accounts are held.
C18_RowLockSerializes ==
    /\ \A a \in Accounts : Cardinality(lock[a]) <= 1
    /\ \A p \in Callers :
          /\ pc[p] \in {"save", "commit"} => lock[op[p].pk] = {p}
          /\ (pc[p] = "select" /\ op[p].pk \in Accounts) =>
                ((ENABLED (Select(p) /\ UNCHANGED purchase_vars))
                    <=> lock[op[p].pk] \subseteq {p})

\* a unit holds the lock of an account while a second operation on that account
\* waits at its select
C18_Witness ==
    \E p \in Callers, q \in Callers :
        /\ p # q
        /\ pc[q] \in {"save", "commit"}
        /\ pc[p] = "select"
        /\ op[p].pk = op[q].pk
        /\ ~ENABLED (Select(p) /\ UNCHANGED purchase_vars)

\* C19: the lifecycle is monotone and skips no state: is_accepted implies
\* is_frozen in every reachable state, a flag that is true never becomes false
\* again, no Transaction row disappears, and no step sets both flags at once.
C19_LifecycleMonotone ==
    /\ [](\A tk \in DOMAIN transactions :
            transactions[tk].is_accepted => transactions[tk].is_frozen)
    /\ [][\A tk \in DOMAIN transactions :
            /\ tk \in DOMAIN transactions'
            /\ transactions[tk].is_frozen => transactions'[tk].is_frozen
            /\ transactions[tk].is_accepted => transactions'[tk].is_accepted
            /\ ~(/\ ~transactions[tk].is_frozen
                 /\ transactions'[tk].is_frozen
                 /\ transactions'[tk].is_accepted)]_vars

\* a Transaction has gone through create, freeze and accept
C19_Witness ==
    \E tk \in DOMAIN transactions :
        /\ transactions[tk].is_frozen
        /\ transactions[tk].is_accepted
        /\ \A p \in Callers : pc[p] = "idle" /\ result[p] = Success(<<>>)

=============================================================================
